---- MODULE Spec2Model ----
(***************************************************************************)
(* Media-group aggregation and multi-target delivery of the Telegram       *)
(* forward bot (src/telegram_forward_bot.py).                              *)
(*                                                                         *)
(* The bot runs on one asyncio event loop.  Code between two awaits is     *)
(* atomic, so every action below is one such stretch: a handler up to its  *)
(* first await, or the resumption of a coroutine after an await up to the  *)
(* next one.  Updates are handled one at a time by the Application         *)
(* (concurrent_updates is off), while the debounce tasks created with      *)
(* asyncio.create_task run concurrently with the handlers.                 *)
(* Task.cancel() raises CancelledError at the await the task is suspended  *)
(* in; CancelledError is a BaseException, which "except Exception" does    *)
(* not catch.                                                              *)
(*                                                                         *)
(* The module also holds build_caption called by itself and the            *)
(* RateLimiter of src/utils.py, each with a specification of its own.      *)
(***************************************************************************)
EXTENDS Integers, Sequences, FiniteSets, TLC

\* ------------------------------------------------------------------ bounds
\* Inbound messages delivered by the adapter: message ids 1..MaxMsg.
MaxMsg == 3
\* Inbound messages while configuration commands are issued.
MaxConfigMsg == 2
\* Inbound messages in the specifications of the dispatcher's options.
MaxBatchMsg == 2
\* Coroutines that share one RateLimiter, the calls they make in all, and the
\* ticks of the clock.
MaxCallers == 2
MaxCalls == 3
MaxTicks == 4
\* Minutes of the message dates build_caption is called on.
MaxMinute == 11

\* ------------------------------------------------------- values and inputs
\* None (Python) for an optional string; a string is a sequence of characters
\* and never holds this one.
None == <<"None">>
Truthy(s) == s # None /\ s # <<>>

Groups == {<<"g", "1">>}

\* What one inbound message may carry: text, caption, payload attributes.
Photo == [text |-> None, caption |-> <<"c">>, fields |-> {"photo"}]
Video == [text |-> None, caption |-> None, fields |-> {"video"}]
Voice == [text |-> None, caption |-> None, fields |-> {"voice"}]
Document == [text |-> None, caption |-> None, fields |-> {"document"}]
Audio == [text |-> None, caption |-> None, fields |-> {"audio"}]
TextPlain == [text |-> <<"x">>, caption |-> None, fields |-> {}]
TextKeyword == [text |-> <<"x", "A">>, caption |-> None, fields |-> {}]

Message(id, chat, gid, p) ==
    [message_id |-> id, chat_id |-> chat, media_group_id |-> gid,
     text |-> p.text, caption |-> p.caption, fields |-> p.fields,
     chat_title |-> <<"t">>, from_user |-> <<"u">>, date |-> [minute |-> 0]]

\* ------------------------------------------------------------ pure helpers
Put(f, k, v) == [x \in (DOMAIN f) \cup {k} |-> IF x = k THEN v ELSE f[x]]

\* Mutant: the cleanup empties the whole dict.
Drop_All(f, k) == <<>>
Drop(f, k) == [x \in (DOMAIN f) \ {k} |-> f[x]]

Lower(ch) ==
    CASE ch = "A" -> "a"
      [] ch = "B" -> "b"
      [] OTHER -> ch

LowerStr(s) == [i \in 1..Len(s) |-> Lower(s[i])]

\* Python's "k in t" on strings: k occurs in t as a contiguous substring.
IsSubstring(k, t) ==
    \E i \in 0..(Len(t) - Len(k)) : \A j \in 1..Len(k) : t[i + j] = k[j]

\* list.sort(key=lambda m: m.message_id): a stable insertion sort.
RECURSIVE InsertById(_, _)
InsertById(m, s) ==
    IF s = <<>> THEN <<m>>
    ELSE IF m.message_id < Head(s).message_id THEN <<m>> \o s
    ELSE <<Head(s)>> \o InsertById(m, Tail(s))

\* Mutant: the batch is emitted in arrival order.
SortById_NoSort(s) == s

RECURSIVE SortById(_)
SortById(s) ==
    IF s = <<>> THEN <<>>
    ELSE InsertById(s[Len(s)], SortById(SubSeq(s, 1, Len(s) - 1)))

Ids(s) == [i \in 1..Len(s) |-> s[i].message_id]

\* Mutant: the video test comes before the photo test.
get_message_type_VideoFirst(message) ==
    IF Truthy(message.text) THEN "text"
    ELSE IF "video" \in message.fields THEN "video"
    ELSE IF "photo" \in message.fields THEN "photo"
    ELSE IF "document" \in message.fields THEN "document"
    ELSE IF "audio" \in message.fields THEN "audio"
    ELSE IF "voice" \in message.fields THEN "voice"
    ELSE IF "sticker" \in message.fields THEN "sticker"
    ELSE IF "animation" \in message.fields THEN "animation"
    ELSE IF "location" \in message.fields THEN "location"
    ELSE IF "poll" \in message.fields THEN "poll"
    ELSE "other"

get_message_type(message) ==
    IF Truthy(message.text) THEN "text"
    ELSE IF "photo" \in message.fields THEN "photo"
    ELSE IF "video" \in message.fields THEN "video"
    ELSE IF "document" \in message.fields THEN "document"
    ELSE IF "audio" \in message.fields THEN "audio"
    ELSE IF "voice" \in message.fields THEN "voice"
    ELSE IF "sticker" \in message.fields THEN "sticker"
    ELSE IF "animation" \in message.fields THEN "animation"
    ELSE IF "location" \in message.fields THEN "location"
    ELSE IF "poll" \in message.fields THEN "poll"
    ELSE "other"

\* Mutant: keyword and text are compared as they are written.
should_filter_message_CaseSensitive(message, content_type, cfg) ==
    \/ content_type \in cfg.forward_settings.filter_content_types
    \/ /\ Truthy(message.text)
       /\ cfg.forward_settings.keyword_filter # <<>>
       /\ \E i \in 1..Len(cfg.forward_settings.keyword_filter) :
             IsSubstring(cfg.forward_settings.keyword_filter[i], message.text)

should_filter_message(message, content_type, cfg) ==
    \/ content_type \in cfg.forward_settings.filter_content_types
    \/ /\ Truthy(message.text)
       /\ cfg.forward_settings.keyword_filter # <<>>
       /\ \E i \in 1..Len(cfg.forward_settings.keyword_filter) :
             IsSubstring(LowerStr(cfg.forward_settings.keyword_filter[i]),
                         LowerStr(message.text))

\* date.strftime('%Y-%m-%d %H:%M:%S'), for the minutes of one hour: the
\* zero-padded decimal digits, and the parse that reads them back.
Digits == <<"0", "1", "2", "3", "4", "5", "6", "7", "8", "9">>

strftime(date) ==
    <<Digits[(date.minute \div 10) + 1], Digits[(date.minute % 10) + 1]>>

DigitValue(ch) == CHOOSE d \in 0..9 : Digits[d + 1] = ch

strptime(str) == [minute |-> DigitValue(str[1]) * 10 + DigitValue(str[2])]

\* build_caption: the three f-strings that should carry the source info are
\* empty in the source, so chat_title, sender_name and time_str are computed
\* and dropped, and the result is the original caption (or "").
build_caption(message, cfg) ==
    LET original_caption == IF Truthy(message.caption) THEN message.caption ELSE <<>>
        chat_title == IF Truthy(message.chat_title) THEN message.chat_title
                      ELSE <<"1", "0", "0">>
        sender_name == message.from_user
        time_str == strftime(message.date)
        info1 == <<>>
        info2 == IF Truthy(message.from_user)
                        /\ cfg.forward_settings.preserve_sender
                     THEN info1 \o <<>>
                     ELSE info1
        source_info == info2 \o <<>>
    IN  IF ~cfg.forward_settings.add_source_info THEN original_caption
        ELSE original_caption \o source_info

\* create_input_media: None for a message the album format cannot carry.
NoMedia == [type |-> "none", of |-> 0, caption |-> None]

\* Mutant: a voice message is put into the album as a document.
create_input_media_VoiceAsDocument(message, caption) ==
    IF "photo" \in message.fields
        THEN [type |-> "photo", of |-> message.message_id, caption |-> caption]
    ELSE IF "video" \in message.fields
        THEN [type |-> "video", of |-> message.message_id, caption |-> caption]
    ELSE IF message.fields \cap {"document", "voice"} # {}
        THEN [type |-> "document", of |-> message.message_id, caption |-> caption]
    ELSE IF "audio" \in message.fields
        THEN [type |-> "audio", of |-> message.message_id, caption |-> caption]
    ELSE NoMedia
create_input_media(message, caption) ==
    IF "photo" \in message.fields
        THEN [type |-> "photo", of |-> message.message_id, caption |-> caption]
    ELSE IF "video" \in message.fields
        THEN [type |-> "video", of |-> message.message_id, caption |-> caption]
    ELSE IF "document" \in message.fields
        THEN [type |-> "document", of |-> message.message_id, caption |-> caption]
    ELSE IF "audio" \in message.fields
        THEN [type |-> "audio", of |-> message.message_id, caption |-> caption]
    ELSE NoMedia

\* Mutant: every item of the album is given the caption.
RECURSIVE MediaListFrom_CaptionAll(_, _, _)
MediaListFrom_CaptionAll(messages, i, caption_text) ==
    IF i > Len(messages) THEN <<>>
    ELSE LET input_media == create_input_media(messages[i], caption_text)
         IN  (IF input_media # NoMedia THEN <<input_media>> ELSE <<>>)
                 \o MediaListFrom_CaptionAll(messages, i + 1, caption_text)

\* The media_list forward_media_group builds for one destination.
RECURSIVE MediaListFrom(_, _, _)
MediaListFrom(messages, i, caption_text) ==
    IF i > Len(messages) THEN <<>>
    ELSE LET input_media ==
                 IF i = 1 /\ Truthy(caption_text)
                     THEN create_input_media(messages[i], caption_text)
                     ELSE create_input_media(messages[i], None)
         IN  (IF input_media # NoMedia THEN <<input_media>> ELSE <<>>)
                 \o MediaListFrom(messages, i + 1, caption_text)

BuildMediaList(messages, cfg) ==
    LET caption_text ==
            IF cfg.forward_settings.add_source_info
                THEN build_caption(messages[1], cfg)
                ELSE None
    IN  MediaListFrom(messages, 1, caption_text)

\* -------------------------------------------------------------------- state
VARIABLES
    config,         \* self.config: lists and settings, mutated by the commands
    media_groups,   \* MediaGroupHandler.media_groups: group id -> buffered messages
    group_timers,   \* MediaGroupHandler.group_timers: group id -> debounce task
    task,           \* per message id: the coroutine its arrival started
    handler,        \* message id whose handler is suspended in a dispatch, or 0
    stats,          \* self.stats counters
    log,            \* rows of forward_logs
    arrived,        \* history: the messages the adapter delivered, in order
    sent,           \* history: calls the provider carried out
    batches,        \* history: batches handed to forward_messages_group
    db_fail,        \* environment: message ids whose INSERT fails right now
    built,          \* a call of a pure method: its arguments and its result
    limiter,        \* utils.RateLimiter: its fields, the clock and its callers
    config_file,    \* config.json: whether it holds a whole document, and which
    disk,           \* environment: how a write of config.json ends
    reply           \* the last command handled: who sent what, and the answer

\* The bot's own state, and what lies outside it.
bot ==
    <<config, media_groups, group_timers, task, handler, stats, log, arrived,
      sent, batches>>

\* The side of the admin commands: the file, the disk and the answers.
commands == <<config_file, disk, reply>>

outside == <<db_fail, built, limiter, commands>>

vars ==
    <<config, media_groups, group_timers, task, handler, stats, log, arrived,
      sent, batches, db_fail, built, limiter, config_file, disk, reply>>

MsgIds == 1..MaxMsg

\* A coroutine: the debounce task of a grouped message (gid a group id), or the
\* dispatch a handler runs inline for an ungrouped one.  pc is the await it is
\* suspended in; it/cur are the iterator and loop variable of "for target_id
\* in targets", ai the iterator of "for admin_id in admins".  trail is history:
\* the awaits the coroutine went through inside the forward callback.
NoTask ==
    [pc |-> "none", gid |-> None, msgs |-> <<>>, album |-> FALSE, it |-> 0,
     cur |-> 0, items |-> <<>>, caption |-> None, ai |-> 0, trail |-> <<>>]

\* One entry of the trail: the sleep of the delay, the outcome of the send to a
\* destination ("ok", "fail"), or the send_message to an admin.
Event(kind, iter, to) == [ev |-> kind, it |-> iter, to |-> to]

Trailed(tr, kind, to) == [tr EXCEPT !.trail = Append(@, Event(kind, tr.it, to))]

\* The list a dispatch works on: the group's buffer itself for a debounce task
\* (messages = self.media_groups[group_id] is the same list object), the fresh
\* one-element list for an inline dispatch.
Messages(tr) ==
    IF Truthy(tr.gid)
        THEN (IF tr.gid \in DOMAIN media_groups THEN media_groups[tr.gid] ELSE <<>>)
        ELSE tr.msgs

\* forward_media_group / forward_single_message: the for loop over the target
\* list from iterator position tr.it up to the next await (a send), or to the
\* end of the list.
RECURSIVE RunLoop(_, _, _)
RunLoop(tr, messages, cfg) ==
    IF tr.it >= Len(cfg.target_channels) THEN [tr EXCEPT !.pc = "done"]
    ELSE LET target_id == cfg.target_channels[tr.it + 1]
             tr1 == [tr EXCEPT !.it = @ + 1, !.cur = target_id]
         IN  IF tr.album
                 THEN LET media_list == BuildMediaList(messages, cfg)
                      IN  IF media_list # <<>>
                              THEN [tr1 EXCEPT !.pc = "send", !.items = media_list]
                              ELSE RunLoop(tr1, messages, cfg)
                 ELSE [tr1 EXCEPT
                          !.pc = "send",
                          !.items = <<>>,
                          !.caption =
                              IF cfg.forward_settings.add_source_info
                                  THEN build_caption(messages[1], cfg)
                                  ELSE None]

\* forward_messages_group after its delay: pick album or single copy.
AfterDelay(tr, messages, cfg) ==
    LET is_media_group ==
            Len(messages) > 1 /\ Truthy(messages[1].media_group_id)
    IN  RunLoop([tr EXCEPT !.album = is_media_group, !.it = 0], messages, cfg)

\* Mutant: the dispatch goes to the destinations without the delay.
StartDispatch_NoDelay(tr, messages, cfg) == AfterDelay(tr, messages, cfg)

\* forward_messages_group from its call to its first await.
StartDispatch(tr, messages, cfg) ==
    IF messages = <<>> THEN [tr EXCEPT !.pc = "done"]
    ELSE IF cfg.target_channels = <<>> THEN [tr EXCEPT !.pc = "done"]
    ELSE IF cfg.forward_settings.delay_seconds > 0
        THEN [Trailed(tr, "delay", 0) EXCEPT !.pc = "delay"]
    ELSE AfterDelay(tr, messages, cfg)

\* notify_admins_error: the for loop over the admin list up to the next send.
NotifyLoop(tr, messages, cfg) ==
    IF tr.ai >= Len(cfg.admins) THEN RunLoop(tr, messages, cfg)
    ELSE [Trailed(tr, "notify", cfg.admins[tr.ai + 1]) EXCEPT
             !.pc = "notify", !.ai = @ + 1]

\* One row of forward_logs (log_forward's INSERT).  The row's key (the table's
\* autoincrement id) is the writing coroutine and its loop iteration.
LogRow(tr_by, tr_it, m, target_id, fwd, is_group, ok, error_msg) ==
    [by |-> tr_by, it |-> tr_it,
     source_chat_id |-> m.chat_id, target_chat_id |-> target_id,
     original_message_id |-> m.message_id, forwarded_message_id |-> fwd,
     content_type |-> get_message_type(m),
     media_group_id |-> m.media_group_id, is_media_group |-> is_group,
     success |-> ok, error_message |-> error_msg]

\* Mutant: the first INSERT that fails ends the loop that writes the rows.
log_forward_AbortRest(rows) ==
    log \cup {r \in rows :
                 \A q \in rows :
                     q.original_message_id <= r.original_message_id
                         => q.original_message_id \notin db_fail}

\* log_forward for the rows one stretch of code writes: an INSERT that fails
\* is caught inside log_forward and leaves no row.
log_forward(rows) ==
    log \cup {r \in rows : r.original_message_id \notin db_fail}

\* The coroutine t goes on as tr: it is suspended again, or it has returned
\* from the forward callback.  A debounce task then deletes its group's buffer
\* and timer entry (mg is the buffer map as the step has changed it so far); an
\* inline dispatch returns to handle_message.
Continue(t, tr, mg) ==
    /\ task' = [task EXCEPT ![t] = tr]
    /\ IF tr.pc = "done"
          THEN IF Truthy(tr.gid)
                  THEN /\ media_groups' = Drop(mg, tr.gid)
                       /\ group_timers' = Drop(group_timers, tr.gid)
                       /\ handler' = handler
                  ELSE /\ handler' = 0
                       /\ media_groups' = mg
                       /\ group_timers' = group_timers
          ELSE /\ handler' = (IF Truthy(tr.gid) THEN handler ELSE t)
               /\ media_groups' = mg
               /\ group_timers' = group_timers

\* What forward_messages_group was called with: a history record.
Batch(t, messages) ==
    [by |-> t, ids |-> Ids(messages), targets |-> config.target_channels]

\* ------------------------------------------------------------------ actions
\* Mutant: every message is buffered, grouped or not.
IsGrouped_Always(message) == TRUE

\* add_message's test "if not message.media_group_id".
IsGrouped(message) == Truthy(message.media_group_id)

\* Mutant: the timer is cancelled on arrival and no new one is scheduled.
TimerTask_NotStarted(group_id) ==
    [NoTask EXCEPT !.pc = "cancelled", !.gid = group_id]

\* The task asyncio.create_task makes of _process_group_after_timeout.
TimerTask(group_id) == [NoTask EXCEPT !.pc = "sleep", !.gid = group_id]

\* Mutant: the timer a new arrival supersedes is left running.
Cancel_Ignored(tr) == tr

\* Task.cancel(): CancelledError is raised at the await the task is suspended
\* in, and the task ends there.
Cancel(tr) == [tr EXCEPT !.pc = "cancelled"]

\* MediaGroupHandler.add_message, up to its return or first await.
add_message(message) ==
    LET id == message.message_id
        group_id == message.media_group_id
    IN  IF ~IsGrouped(message)
            THEN /\ batches' = batches \cup {Batch(id, <<message>>)}
                 /\ Continue(id,
                             StartDispatch([NoTask EXCEPT !.msgs = <<message>>],
                                           <<message>>, config),
                             media_groups)
            ELSE /\ media_groups' =
                        Put(media_groups, group_id,
                            Append(IF group_id \in DOMAIN media_groups
                                       THEN media_groups[group_id]
                                       ELSE <<>>,
                                   message))
                 /\ task' =
                        [t \in MsgIds |->
                            IF t = id THEN TimerTask(group_id)
                            ELSE IF /\ group_id \in DOMAIN group_timers
                                    /\ t = group_timers[group_id]
                                    /\ task[t].pc \notin {"done", "cancelled"}
                                THEN Cancel(task[t])
                            ELSE task[t]]
                 /\ group_timers' = Put(group_timers, group_id, id)
                 /\ UNCHANGED <<handler, batches>>

FromSource_Any(message, cfg) == TRUE

\* handle_message's two early returns: the chat is no source, or the filter
\* suppresses the message.
FromSource(message, cfg) ==
    \E i \in 1..Len(cfg.source_channels) :
        cfg.source_channels[i] = message.chat_id

\* Mutant: only the content-type block-list is consulted.
Suppressed_TypeOnly(message, cfg) ==
    get_message_type(message) \in cfg.forward_settings.filter_content_types

\* Mutant: a grouped message follows the decision taken for the first message
\* buffered for its group.
Suppressed_ByFirst(message, cfg) ==
    LET g == message.media_group_id
        first == IF Truthy(g) /\ g \in DOMAIN media_groups
                     THEN media_groups[g][1]
                     ELSE message
    IN  should_filter_message(first, get_message_type(first), cfg)

Suppressed(message, cfg) ==
    should_filter_message(message, get_message_type(message), cfg)

\* handle_message for one update of the adapter.  Updates are handled one at a
\* time: no handler starts while another is suspended in a dispatch.
HandleMessage(id, chat, gid, p) ==
    LET message == Message(id, chat, gid, p)
    IN  /\ handler = 0
        /\ id \in MsgIds
        /\ \A i \in 1..Len(arrived) : arrived[i].message_id # id
        /\ arrived' = Append(arrived, message)
        /\ UNCHANGED <<config, log, sent>>
        /\ UNCHANGED outside
        /\ IF ~FromSource(message, config)
              THEN UNCHANGED <<media_groups, group_timers, task, handler,
                               stats, batches>>
              ELSE /\ stats' = [stats EXCEPT !.messages_received = @ + 1]
                   /\ IF Suppressed(message, config)
                         THEN UNCHANGED <<media_groups, group_timers, task,
                                          handler, batches>>
                         ELSE add_message(message)

\* _process_group_after_timeout: asyncio.sleep(timeout_seconds) is over.
TimerExpire(t) ==
    LET group_id == task[t].gid
    IN  /\ task[t].pc = "sleep"
        /\ UNCHANGED <<config, stats, log, arrived, sent>>
        /\ UNCHANGED outside
        /\ IF group_id \in DOMAIN media_groups
              THEN LET messages == SortById(media_groups[group_id])
                   IN  /\ batches' = batches \cup {Batch(t, messages)}
                       /\ Continue(t, StartDispatch(task[t], messages, config),
                                   [media_groups EXCEPT ![group_id] = messages])
              ELSE /\ task' = [task EXCEPT ![t].pc = "done"]
                   /\ UNCHANGED <<media_groups, group_timers, handler, batches>>

\* forward_messages_group: asyncio.sleep(delay) is over.
DelayElapsed(t) ==
    /\ task[t].pc = "delay"
    /\ Continue(t, AfterDelay(task[t], Messages(task[t]), config), media_groups)
    /\ UNCHANGED <<config, stats, log, arrived, sent, batches>>
    /\ UNCHANGED outside

\* The rows written after send_media_group returned sent_messages:
\* zip(messages, sent_messages) pairs by position and stops at the shorter.
ZipRows(t, tr, messages) ==
    { LogRow(t, tr.it, messages[i], tr.cur, tr.items[i].of, TRUE, TRUE, None) :
        i \in (1..Len(messages)) \cap (1..Len(tr.items)) }

\* str(e) of the provider's exception.
ErrorText == <<"e">>

\* Mutant: a failed album leaves one row, for its first message.
FailRows_FirstOnly(t, tr, messages) ==
    { LogRow(t, tr.it, messages[1], tr.cur, 0, TRUE, FALSE, ErrorText) }

FailRows(t, tr, messages) ==
    { LogRow(t, tr.it, messages[i], tr.cur, 0, TRUE, FALSE, ErrorText) :
        i \in 1..Len(messages) }

\* A call the provider carried out: a history record.
Call(t, tr, api, chat, media) ==
    [by |-> t, it |-> tr.it, ai |-> tr.ai, api |-> api, chat_id |-> chat,
     media |-> media]

\* The provider carried out the send the coroutine awaits.
SendOk(t) ==
    LET tr == task[t]
        messages == Messages(tr)
    IN  /\ tr.pc = "send"
        /\ IF tr.album
              THEN /\ sent' = sent \cup {Call(t, tr, "send_media_group", tr.cur,
                                                 tr.items)}
                   /\ log' = log_forward(ZipRows(t, tr, messages))
                   /\ stats' = [stats EXCEPT
                                   !.messages_forwarded = @ + Len(messages),
                                   !.media_groups_forwarded = @ + 1]
              ELSE /\ sent' = sent \cup
                              {Call(t, tr, "copy_message", tr.cur,
                                    <<[type |-> "copy",
                                       of |-> messages[1].message_id,
                                       caption |-> tr.caption]>>)}
                   /\ log' = log_forward(
                                 {LogRow(t, tr.it, messages[1], tr.cur,
                                         messages[1].message_id, FALSE, TRUE,
                                         None)})
                   /\ stats' = [stats EXCEPT !.messages_forwarded = @ + 1]
        /\ Continue(t, RunLoop(Trailed(tr, "ok", tr.cur), messages, config),
                    media_groups)
        /\ UNCHANGED <<config, arrived, batches>>
        /\ UNCHANGED outside

\* Mutant: the provider error leaves the loop and ends the dispatch.
AfterSendError_Raise(tr, messages, cfg) == [tr EXCEPT !.pc = "done"]

\* The end of an iteration's except branch: notify the admins if enabled,
\* then on to the next destination.
AfterSendError(tr, messages, cfg) ==
    IF cfg.notification_settings.notify_admin_on_error
        THEN NotifyLoop([tr EXCEPT !.ai = 0], messages, cfg)
        ELSE RunLoop(tr, messages, cfg)

\* The send raised a provider error: the except branch of the iteration.
SendFail(t) ==
    LET tr == task[t]
        messages == Messages(tr)
    IN  /\ tr.pc = "send"
        /\ IF tr.album
              THEN /\ log' = log_forward(FailRows(t, tr, messages))
                   /\ stats' = [stats EXCEPT !.failed_forwards = @ + Len(messages)]
              ELSE /\ log' = log_forward(
                                 {LogRow(t, tr.it, messages[1], tr.cur, 0,
                                         FALSE, FALSE, ErrorText)})
                   /\ stats' = [stats EXCEPT !.failed_forwards = @ + 1]
        /\ Continue(t, AfterSendError(Trailed(tr, "fail", tr.cur), messages,
                                       config),
                    media_groups)
        /\ UNCHANGED <<config, arrived, sent, batches>>
        /\ UNCHANGED outside

\* Mutant: an admin that cannot be reached ends the notification loop.
AfterNotify_Raise(tr, messages, cfg, ok) ==
    IF ok THEN NotifyLoop(tr, messages, cfg) ELSE RunLoop(tr, messages, cfg)

\* notify_admins_error after one send_message: returned, or raised and logged
\* by the except branch; both ways the for loop goes on.
AfterNotify(tr, messages, cfg, ok) == NotifyLoop(tr, messages, cfg)

\* notify_admins_error: the send_message to one admin returned or raised.
NotifyDone(t, ok) ==
    LET tr == task[t]
    IN  /\ tr.pc = "notify"
        /\ sent' = IF ok
                      THEN sent \cup {Call(t, tr, "send_message",
                                           config.admins[tr.ai], <<>>)}
                      ELSE sent
        /\ Continue(t, AfterNotify(tr, Messages(tr), config, ok), media_groups)
        /\ UNCHANGED <<config, stats, log, arrived, batches>>
        /\ UNCHANGED outside

is_admin_Anyone(user_id, cfg) == TRUE

\* is_admin: the user is in the admin list.
is_admin(user_id, cfg) ==
    \E i \in 1..Len(cfg.admins) : cfg.admins[i] = user_id

InList(x, q) == \E i \in 1..Len(q) : q[i] = x

\* list.remove(x): drops the first occurrence.
RECURSIVE ListRemove(_, _)
ListRemove(q, x) ==
    IF q = <<>> THEN <<>>
    ELSE IF Head(q) = x THEN Tail(q)
    ELSE <<Head(q)>> \o ListRemove(Tail(q), x)

\* int(s) of a command argument: an optional sign and decimal digits, or
\* ValueError (ok FALSE).
IsDigit(ch) == \E d \in 1..Len(Digits) : Digits[d] = ch

RECURSIVE DecimalValue(_)
DecimalValue(str) ==
    IF str = <<>> THEN 0
    ELSE DecimalValue(SubSeq(str, 1, Len(str) - 1)) * 10
             + DigitValue(str[Len(str)])

int_ZeroOnError(str) == [ok |-> TRUE, value |-> 0]

int(str) ==
    LET signed == str # <<>> /\ str[1] \in {"-", "+"}
        body == IF signed THEN Tail(str) ELSE str
    IN  IF body # <<>> /\ \A i \in 1..Len(body) : IsDigit(body[i])
            THEN [ok |-> TRUE,
                  value |-> IF signed /\ str[1] = "-"
                               THEN 0 - DecimalValue(body)
                               ELSE DecimalValue(body)]
            ELSE [ok |-> FALSE, value |-> 0]

\* save_config: the file after json.dump of cfg.  open(..., 'w') may fail and
\* leave the file as it was; the dump may fail after the file was truncated.
\* Either exception is caught and logged inside save_config.
save_config(cfg) ==
    IF disk = "ok" THEN [valid |-> TRUE, content |-> cfg]
    ELSE IF disk = "full" THEN [valid |-> FALSE, content |-> cfg]
    ELSE config_file

\* No command handled yet.
NoReply == [cmd |-> "none", user |-> 0, args |-> <<>>, kind |-> "none"]

\* What a command answered: kind "none" is the return without a reply, "ok" the
\* reply that reports the change, the others the replies that refuse it.
Answer(cmd, user_id, args, kind) ==
    [cmd |-> cmd, user |-> user_id, args |-> args, kind |-> kind]

\* A command returns before it changes anything.
Refuse(cmd, user_id, args, kind) ==
    /\ config' = config
    /\ config_file' = config_file
    /\ reply' = Answer(cmd, user_id, args, kind)

\* A command changes the configuration, calls save_config and reports success.
Change(cmd, user_id, args, cfg) ==
    /\ config' = cfg
    /\ config_file' = save_config(cfg)
    /\ reply' = Answer(cmd, user_id, args, "ok")

\* What a command leaves alone.  Commands are updates too: none is handled
\* while a handler is suspended.
CommandFrame ==
    /\ handler = 0
    /\ UNCHANGED <<media_groups, group_timers, task, handler, stats, log,
                   arrived, sent, batches>>
    /\ UNCHANGED <<db_fail, built, limiter, disk>>

\* /add_source <id>.  The list is changed in place.
add_source_command(user_id, args) ==
    /\ CommandFrame
    /\ IF ~is_admin(user_id, config)
          THEN Refuse("add_source", user_id, args, "none")
       ELSE IF args = <<>>
          THEN Refuse("add_source", user_id, args, "usage")
       ELSE LET channel_id == int(args[1])
            IN  IF ~channel_id.ok
                   THEN Refuse("add_source", user_id, args, "invalid")
                ELSE IF ~InList(channel_id.value, config.source_channels)
                   THEN Change("add_source", user_id, args,
                               [config EXCEPT !.source_channels =
                                                  Append(@, channel_id.value)])
                ELSE Refuse("add_source", user_id, args, "exists")

\* /add_target <id>.
add_target_command(user_id, args) ==
    /\ CommandFrame
    /\ IF ~is_admin(user_id, config)
          THEN Refuse("add_target", user_id, args, "none")
       ELSE IF args = <<>>
          THEN Refuse("add_target", user_id, args, "usage")
       ELSE LET channel_id == int(args[1])
            IN  IF ~channel_id.ok
                   THEN Refuse("add_target", user_id, args, "invalid")
                ELSE IF ~InList(channel_id.value, config.target_channels)
                   THEN Change("add_target", user_id, args,
                               [config EXCEPT !.target_channels =
                                                  Append(@, channel_id.value)])
                ELSE Refuse("add_target", user_id, args, "exists")

\* /remove_source <id>.
remove_source_command(user_id, args) ==
    /\ CommandFrame
    /\ IF ~is_admin(user_id, config)
          THEN Refuse("remove_source", user_id, args, "none")
       ELSE IF args = <<>>
          THEN Refuse("remove_source", user_id, args, "usage")
       ELSE LET channel_id == int(args[1])
            IN  IF ~channel_id.ok
                   THEN Refuse("remove_source", user_id, args, "invalid")
                ELSE IF InList(channel_id.value, config.source_channels)
                   THEN Change("remove_source", user_id, args,
                               [config EXCEPT !.source_channels =
                                                  ListRemove(@, channel_id.value)])
                ELSE Refuse("remove_source", user_id, args, "absent")

\* /remove_target <id>.
remove_target_command(user_id, args) ==
    /\ CommandFrame
    /\ IF ~is_admin(user_id, config)
          THEN Refuse("remove_target", user_id, args, "none")
       ELSE IF args = <<>>
          THEN Refuse("remove_target", user_id, args, "usage")
       ELSE LET channel_id == int(args[1])
            IN  IF ~channel_id.ok
                   THEN Refuse("remove_target", user_id, args, "invalid")
                ELSE IF InList(channel_id.value, config.target_channels)
                   THEN Change("remove_target", user_id, args,
                               [config EXCEPT !.target_channels =
                                                  ListRemove(@, channel_id.value)])
                ELSE Refuse("remove_target", user_id, args, "absent")

\* /add_admin <id>.
add_admin_command(user_id, args) ==
    /\ CommandFrame
    /\ IF ~is_admin(user_id, config)
          THEN Refuse("add_admin", user_id, args, "none")
       ELSE IF args = <<>>
          THEN Refuse("add_admin", user_id, args, "usage")
       ELSE LET new_admin_id == int(args[1])
            IN  IF ~new_admin_id.ok
                   THEN Refuse("add_admin", user_id, args, "invalid")
                ELSE IF ~InList(new_admin_id.value, config.admins)
                   THEN Change("add_admin", user_id, args,
                               [config EXCEPT !.admins =
                                                  Append(@, new_admin_id.value)])
                ELSE Refuse("add_admin", user_id, args, "exists")

\* /set_delay <seconds>.
set_delay_command(user_id, args) ==
    /\ CommandFrame
    /\ IF ~is_admin(user_id, config)
          THEN Refuse("set_delay", user_id, args, "none")
       ELSE IF args = <<>>
          THEN Refuse("set_delay", user_id, args, "usage")
       ELSE LET delay == int(args[1])
            IN  IF ~delay.ok
                   THEN Refuse("set_delay", user_id, args, "invalid")
                ELSE IF delay.value < 0
                   THEN Refuse("set_delay", user_id, args, "negative")
                ELSE Change("set_delay", user_id, args,
                            [config EXCEPT !.forward_settings.delay_seconds =
                                               delay.value])

\* /toggle_source_info: takes no argument.
toggle_source_info_command(user_id) ==
    /\ CommandFrame
    /\ IF ~is_admin(user_id, config)
          THEN Refuse("toggle_source_info", user_id, <<>>, "none")
          ELSE Change("toggle_source_info", user_id, <<>>,
                      [config EXCEPT !.forward_settings.add_source_info = ~@])

\* ------------------------------------------------------------ build_caption
\* No call of build_caption under observation.
NoCall == [called |-> FALSE, message |-> None, settings |-> None, result |-> None]

\* One call of build_caption on a message of the adapter, observed with its
\* arguments and the caption it returned.
BuildCaption(message, add, preserve) ==
    LET cfg == [forward_settings |->
                   [add_source_info |-> add, preserve_sender |-> preserve]]
    IN  /\ built' = [called |-> TRUE,
                     message |-> message,
                     settings |-> cfg.forward_settings,
                     result |-> build_caption(message, cfg)]
        /\ UNCHANGED bot
        /\ UNCHANGED <<db_fail, limiter>>
        /\ UNCHANGED commands

\* One call of get_message_type, observed with its argument and its result.
GetMessageType(message) ==
    /\ ~built.called
    /\ built' = [called |-> TRUE, message |-> message, settings |-> None,
                 result |-> get_message_type(message)]
    /\ UNCHANGED bot
    /\ UNCHANGED <<db_fail, limiter>>
    /\ UNCHANGED commands

\* One call of should_filter_message, observed with its arguments and result.
ShouldFilterMessage(message, content_type, kinds, keywords) ==
    LET cfg == [forward_settings |->
                   [filter_content_types |-> kinds, keyword_filter |-> keywords]]
    IN  /\ ~built.called
        /\ built' = [called |-> TRUE, message |-> message,
                     settings |-> [content_type |-> content_type,
                                   filter_content_types |-> kinds,
                                   keyword_filter |-> keywords],
                     result |-> should_filter_message(message, content_type, cfg)]
        /\ UNCHANGED bot
        /\ UNCHANGED <<db_fail, limiter>>
        /\ UNCHANGED commands

\* ------------------------------------------------------------- RateLimiter
\* utils.RateLimiter(max_per_minute) with the clock datetime.now() reads (in
\* seconds) and the coroutines that call wait_if_needed before they send.
\* went is history: the instants at which a caller went on to send.
RateLimiter(max_per_minute) ==
    [max_per_minute |-> max_per_minute, requests |-> <<>>, now |-> 0,
     pc |-> [c \in 1..MaxCallers |-> "idle"],
     wake |-> [c \in 1..MaxCallers |-> 0],
     went |-> <<>>]

Callers == 1..MaxCallers

RECURSIVE Min(_)
Min(q) ==
    IF Len(q) = 1 THEN q[1]
    ELSE LET m == Min(Tail(q)) IN IF Head(q) < m THEN Head(q) ELSE m

\* acquire: drop the requests older than a minute, then admit and record the
\* request if fewer than max_per_minute remain.  Returns the new list and the
\* answer.
acquire(rl) ==
    LET kept == SelectSeq(rl.requests, LAMBDA req_time : rl.now - req_time < 60)
    IN  IF Len(kept) >= rl.max_per_minute
            THEN [requests |-> kept, granted |-> FALSE]
            ELSE [requests |-> Append(kept, rl.now), granted |-> TRUE]

\* wait_if_needed up to its return or its sleep.  acquire has no await, so the
\* stretch is atomic.
WaitIfNeeded(c) ==
    LET a == acquire(limiter)
    IN  /\ limiter.pc[c] = "idle"
        /\ Len(limiter.went) < MaxCalls
        /\ IF a.granted
              THEN limiter' = [limiter EXCEPT
                                  !.requests = a.requests,
                                  !.went = Append(@, limiter.now)]
              ELSE LET sleep_time == 60 - (limiter.now - Min(a.requests))
                   IN  limiter' = [limiter EXCEPT
                                      !.requests = a.requests,
                                      !.pc[c] = "sleep",
                                      !.wake[c] = limiter.now + sleep_time]
        /\ UNCHANGED bot
        /\ UNCHANGED <<db_fail, built>>
        /\ UNCHANGED commands

\* asyncio.sleep(sleep_time) is over: wait_if_needed returns and the caller
\* goes on to send.
Wake(c) ==
    /\ limiter.pc[c] = "sleep"
    /\ limiter.now >= limiter.wake[c]
    /\ limiter' = [limiter EXCEPT !.pc[c] = "idle",
                                  !.went = Append(@, limiter.now)]
    /\ UNCHANGED bot
    /\ UNCHANGED <<db_fail, built>>
    /\ UNCHANGED commands

\* The clock advances, in steps of 20 seconds; a sleep that is over ends
\* before the clock moves on.
Tick ==
    /\ limiter.now < 20 * MaxTicks
    /\ \A c \in Callers : limiter.pc[c] = "sleep" => limiter.wake[c] > limiter.now
    /\ limiter' = [limiter EXCEPT !.now = @ + 20]
    /\ UNCHANGED bot
    /\ UNCHANGED <<db_fail, built>>
    /\ UNCHANGED commands

\* ------------------------------------------------------------ specification
DefaultSettings ==
    [delay_seconds |-> 0, add_source_info |-> TRUE, preserve_sender |-> TRUE,
     filter_content_types |-> {}, keyword_filter |-> <<>>]

BaseConfig ==
    [source_channels |-> <<100>>, target_channels |-> <<201, 202>>,
     admins |-> <<7>>, forward_settings |-> DefaultSettings,
     notification_settings |-> [notify_admin_on_error |-> TRUE]]

InitBot(cfg) ==
    /\ config = cfg
    /\ media_groups = <<>>
    /\ group_timers = <<>>
    /\ task = [t \in MsgIds |-> NoTask]
    /\ handler = 0
    /\ stats = [messages_received |-> 0, messages_forwarded |-> 0,
                failed_forwards |-> 0, media_groups_forwarded |-> 0]
    /\ log = {}
    /\ arrived = <<>>
    /\ sent = {}
    /\ batches = {}

\* config.json as load_config left it, a disk of the given kind, no command
\* handled yet.
InitCommands(cfg, mode) ==
    /\ config_file = [valid |-> TRUE, content |-> cfg]
    /\ disk = mode
    /\ reply = NoReply

\* The bot with its database and its disk in order; no build_caption call is
\* observed and the rate limiter (max_per_minute at its default) is not called.
InitWith(cfg) ==
    /\ InitBot(cfg)
    /\ db_fail = {}
    /\ built = NoCall
    /\ limiter = RateLimiter(20)
    /\ InitCommands(cfg, "ok")

\* The coroutines' steps, common to every specification.
Steps ==
    \/ \E t \in MsgIds : TimerExpire(t)
    \/ \E t \in MsgIds : DelayElapsed(t)
    \/ \E t \in MsgIds : SendOk(t)
    \/ \E t \in MsgIds : SendFail(t)

\* Aggregation: one group and ungrouped messages, ids arriving in any order,
\* a forwarding delay, two destinations whose sends may fail.
Init ==
    InitWith([BaseConfig EXCEPT
                 !.forward_settings.delay_seconds = 1,
                 !.notification_settings.notify_admin_on_error = FALSE])

Next ==
    \/ \E id \in MsgIds, gid \in Groups \cup {None} :
          HandleMessage(id, 100, gid, Photo)
    \/ Steps

Spec == Init /\ [][Next]_vars

\* Dispatch and filtering: messages arrive in id order; albums may hold members
\* the album format cannot carry; videos and the keyword "a" are blocked;
\* failures are reported to the admin.
DispatchInputs ==
    { <<G, Photo>> : G \in Groups } \cup { <<G, Video>> : G \in Groups }
        \cup { <<G, Voice>> : G \in Groups }
        \cup { <<None, TextPlain>>, <<None, TextKeyword>> }

InitDispatch ==
    InitWith([BaseConfig EXCEPT
                 !.forward_settings.filter_content_types = {"video"},
                 !.forward_settings.keyword_filter = << <<"a">> >>])

NextDispatch ==
    \/ \E in \in DispatchInputs :
          HandleMessage(Len(arrived) + 1, 100, in[1], in[2])
    \* delay_seconds keeps its default 0: no dispatch sleeps before sending
    \/ \E t \in MsgIds : TimerExpire(t)
    \/ \E t \in MsgIds : SendOk(t)
    \/ \E t \in MsgIds : SendFail(t)
    \/ \E t \in MsgIds : NotifyDone(t, TRUE)

SpecDispatch == InitDispatch /\ [][NextDispatch]_vars

\* Configuration commands while grouped messages are being dispatched: user 7
\* is the admin, 8 is not; channel 203 can be added, 201 removed.
Users == {7, 8}
AddChannels == {<<"2", "0", "3">>}
RemoveChannels == {<<"2", "0", "1">>}

InitConfig ==
    InitWith([BaseConfig EXCEPT
                 !.forward_settings.delay_seconds = 1,
                 !.notification_settings.notify_admin_on_error = FALSE])

NextConfig ==
    \/ \E G \in Groups :
          /\ Len(arrived) < MaxConfigMsg
          /\ HandleMessage(Len(arrived) + 1, 100, G, Photo)
    \/ Steps
    \/ \E u \in Users, c \in AddChannels : add_target_command(u, <<c>>)
    \/ \E u \in Users, c \in RemoveChannels : remove_target_command(u, <<c>>)
    \/ \E u \in Users : toggle_source_info_command(u)

SpecConfig == InitConfig /\ [][NextConfig]_vars

\* The admin commands by themselves: an admin and a stranger send every
\* command with no argument, a word, a negative number or a number; the disk
\* takes writes, refuses to open the file, or fills up during the write.
DiskModes == {"ok", "readonly", "full"}
CommandArgs == {<<>>, << <<"x">> >>, << <<"-", "1">> >>, << <<"8">> >>}

InitCommandsSpec ==
    \E mode \in DiskModes :
        /\ InitBot(BaseConfig)
        /\ db_fail = {}
        /\ built = NoCall
        /\ limiter = RateLimiter(20)
        /\ InitCommands(BaseConfig, mode)

NextCommands ==
    \/ \E u \in Users, args \in CommandArgs : add_source_command(u, args)
    \/ \E u \in Users, args \in CommandArgs : add_target_command(u, args)
    \/ \E u \in Users, args \in CommandArgs : remove_source_command(u, args)
    \/ \E u \in Users, args \in CommandArgs : remove_target_command(u, args)
    \/ \E u \in Users, args \in CommandArgs : add_admin_command(u, args)
    \/ \E u \in Users, args \in CommandArgs : set_delay_command(u, args)
    \/ \E u \in Users : toggle_source_info_command(u)

SpecCommands == InitCommandsSpec /\ [][NextCommands]_vars

\* The forwarding delay: set or not, with one or two destinations; messages
\* arrive in id order, grouped or not.
InitDelay ==
    \E d \in {0, 1}, targets \in {<<201>>, <<201, 202>>} :
        InitWith([BaseConfig EXCEPT
                     !.target_channels = targets,
                     !.forward_settings.delay_seconds = d,
                     !.notification_settings.notify_admin_on_error = FALSE])

NextDelay ==
    \/ \E gid \in Groups \cup {None} :
          /\ Len(arrived) < MaxBatchMsg
          /\ HandleMessage(Len(arrived) + 1, 100, gid, Photo)
    \/ Steps

SpecDelay == InitDelay /\ [][NextDelay]_vars

\* Error notification: enabled or not, two admins that may be unreachable; an
\* album and single messages arrive in id order; sends may fail.
NotifyInputs == { <<G, Photo>> : G \in Groups } \cup { <<None, TextPlain>> }

InitNotify ==
    \E notify \in BOOLEAN :
        InitWith([BaseConfig EXCEPT
                     !.admins = <<7, 8>>,
                     !.notification_settings.notify_admin_on_error = notify])

NextNotify ==
    \/ \E in \in NotifyInputs :
          /\ Len(arrived) < MaxBatchMsg
          /\ HandleMessage(Len(arrived) + 1, 100, in[1], in[2])
    \/ \E t \in MsgIds : TimerExpire(t)
    \/ \E t \in MsgIds : SendOk(t)
    \/ \E t \in MsgIds : SendFail(t)
    \/ \E t \in MsgIds, ok \in BOOLEAN : NotifyDone(t, ok)

SpecNotify == InitNotify /\ [][NextNotify]_vars

\* The database: the INSERT of any message's row may fail at any time (file
\* locked, disk full); a failed send is reported to the admin.
DbChange(failing) ==
    /\ db_fail' = failing
    /\ db_fail # failing
    /\ UNCHANGED bot
    /\ UNCHANGED <<built, limiter>>
    /\ UNCHANGED commands

NextLog ==
    \/ \E in \in NotifyInputs :
          /\ Len(arrived) < MaxBatchMsg
          /\ HandleMessage(Len(arrived) + 1, 100, in[1], in[2])
    \/ \E t \in MsgIds : TimerExpire(t)
    \/ \E t \in MsgIds : SendOk(t)
    \/ \E t \in MsgIds : SendFail(t)
    \/ \E t \in MsgIds : NotifyDone(t, TRUE)
    \/ \E failing \in SUBSET (1..MaxBatchMsg) : DbChange(failing)

SpecLog == InitWith(BaseConfig) /\ [][NextLog]_vars

\* Albums: add_source_info set or not; the members of a group arrive in id
\* order and are of the four kinds an album carries, or a voice message.
AlbumInputs == {Photo, Video, Document, Audio, Voice}

InitAlbum ==
    \E add \in BOOLEAN :
        InitWith([BaseConfig EXCEPT
                     !.forward_settings.add_source_info = add,
                     !.notification_settings.notify_admin_on_error = FALSE])

NextAlbum ==
    \/ \E G \in Groups, p \in AlbumInputs :
          /\ Len(arrived) < MaxBatchMsg
          /\ HandleMessage(Len(arrived) + 1, 100, G, p)
    \/ \E t \in MsgIds : TimerExpire(t)
    \/ \E t \in MsgIds : SendOk(t)
    \/ \E t \in MsgIds : SendFail(t)

SpecAlbum == InitAlbum /\ [][NextAlbum]_vars

\* build_caption by itself: messages with or without caption, chat title and
\* sender, dated at any minute, under the four settings of the two switches.
CaptionMessages ==
    { [caption |-> c, chat_title |-> ti, from_user |-> u, date |-> [minute |-> mi]] :
        c \in {None, <<>>, <<"c">>}, ti \in {None, <<"t">>},
        u \in {None, <<"u">>}, mi \in 0..MaxMinute }

NextCaption ==
    \E message \in CaptionMessages, add \in BOOLEAN, preserve \in BOOLEAN :
        BuildCaption(message, add, preserve)

SpecCaption == InitWith(BaseConfig) /\ [][NextCaption]_vars

\* RateLimiter by itself: one or two sends a minute, callers that call
\* wait_if_needed at any instant of the clock.
InitLimiter ==
    /\ InitBot(BaseConfig)
    /\ db_fail = {}
    /\ built = NoCall
    /\ \E M \in {1, 2} : limiter = RateLimiter(M)
    /\ InitCommands(BaseConfig, "ok")

NextLimiter ==
    \/ \E c \in Callers : WaitIfNeeded(c)
    \/ \E c \in Callers : Wake(c)
    \/ Tick

SpecLimiter == InitLimiter /\ [][NextLimiter]_vars

\* get_message_type by itself: every set of payload attributes, with no text,
\* an empty text or a text.
PayloadFields ==
    {"photo", "video", "document", "audio", "voice", "sticker", "animation",
     "location", "poll"}

NextType ==
    \E text \in {None, <<>>, <<"x">>}, fields \in SUBSET PayloadFields :
        GetMessageType([text |-> text, fields |-> fields])

SpecType == InitWith(BaseConfig) /\ [][NextType]_vars

\* should_filter_message by itself: texts and keywords in either case, kinds
\* blocked or not, keyword lists empty or not.
FilterTexts == {None, <<>>, <<"x">>, <<"x", "A">>, <<"a", "b">>, <<"B">>}
FilterKeywords ==
    {<<>>, << <<"a">> >>, << <<"c">>, <<"A", "B">> >>, << <<"b", "a">> >>}

NextFilter ==
    \E text \in FilterTexts, content_type \in {"text", "photo", "video"},
       kinds \in SUBSET {"photo", "video"}, keywords \in FilterKeywords :
        ShouldFilterMessage([text |-> text], content_type, kinds, keywords)

SpecFilter == InitWith(BaseConfig) /\ [][NextFilter]_vars

\* Two groups whose messages arrive interleaved, in id order; sends may fail.
TwoGroups == {<<"g", "1">>, <<"g", "2">>}

NextGroups ==
    \/ \E G \in TwoGroups : HandleMessage(Len(arrived) + 1, 100, G, Photo)
    \/ \E t \in MsgIds : TimerExpire(t)
    \/ \E t \in MsgIds : SendOk(t)
    \/ \E t \in MsgIds : SendFail(t)

SpecGroups ==
    InitWith([BaseConfig EXCEPT
                 !.notification_settings.notify_admin_on_error = FALSE])
        /\ [][NextGroups]_vars

\* Sources and other chats: messages arrive in id order from the configured
\* source 100 or from chat 999, grouped or not; videos and the keyword "a" are
\* blocked; sends may fail.
Chats == {100, 999}
SourceInputs ==
    { <<G, Photo>> : G \in Groups } \cup { <<G, Video>> : G \in Groups }
        \cup { <<None, TextPlain>>, <<None, TextKeyword>> }

InitSource ==
    InitWith([BaseConfig EXCEPT
                 !.forward_settings.filter_content_types = {"video"},
                 !.forward_settings.keyword_filter = << <<"a">> >>,
                 !.notification_settings.notify_admin_on_error = FALSE])

NextSource ==
    \/ \E chat \in Chats, in \in SourceInputs :
          HandleMessage(Len(arrived) + 1, chat, in[1], in[2])
    \/ \E t \in MsgIds : TimerExpire(t)
    \/ \E t \in MsgIds : SendOk(t)
    \/ \E t \in MsgIds : SendFail(t)

SpecSource == InitSource /\ [][NextSource]_vars

\* The scheduling asyncio guarantees: a sleep ends, and a call to the provider
\* returns or raises.
Fairness ==
    /\ \A t \in MsgIds : WF_vars(TimerExpire(t))
    /\ \A t \in MsgIds : WF_vars(DelayElapsed(t))
    /\ \A t \in MsgIds : WF_vars(SendOk(t) \/ SendFail(t))

FairSpec == Spec /\ Fairness

\* ----------------------------------------------------- vocabulary of claims
RECURSIVE Ascending(_)
Ascending(S) ==
    IF S = {} THEN <<>>
    ELSE LET x == CHOOSE x \in S : \A y \in S : x <= y
         IN  <<x>> \o Ascending(S \ {x})

Elems(q) == {q[i] : i \in 1..Len(q)}

\* The messages handle_message passed on to add_message.
Accepted(m) ==
    /\ FromSource(m, config)
    /\ ~should_filter_message(m, get_message_type(m), config)

AcceptedArrivals == SelectSeq(arrived, Accepted)

\* The accepted arrivals that carry group id g, in arrival order.
RECURSIVE OfGroup(_, _)
OfGroup(q, g) ==
    IF q = <<>> THEN <<>>
    ELSE (IF Head(q).media_group_id = g THEN <<Head(q)>> ELSE <<>>)
             \o OfGroup(Tail(q), g)

\* The batches the debounce tasks of group g handed to the callback.
Emitted(g) == {b \in batches : task[b.by].gid = g}

\* All arrivals of g so far came within the debounce window of one another: no
\* timer of g expired before the latest arrival.
Debounced(g) ==
    LET arr == OfGroup(AcceptedArrivals, g)
    IN  /\ arr # <<>>
        /\ \A b \in Emitted(g) : b.by = arr[Len(arr)].message_id

Live(t) == task[t].pc \in {"sleep", "delay", "send", "notify"}

\* Destination number k of its list was attempted by dispatch t.
Attempted(t, k) ==
    \/ \E c \in sent : c.by = t /\ c.it = k /\ c.api # "send_message"
    \/ \E r \in log : r.by = t /\ r.it = k

\* ------------------------------------------------------------------- claims
\* C1: when all messages of a group arrive within the debounce window of one
\* another, the batch the timer hands to the forward callback holds exactly
\* those messages, each once, in ascending message-id order.
C1_DebouncedBatchExactSorted ==
    \A g \in Groups :
        Debounced(g) =>
            \A b \in Emitted(g) :
                b.ids = Ascending(Elems(Ids(OfGroup(AcceptedArrivals, g))))

C1_Witness ==
    \E g \in Groups :
        LET arr == OfGroup(AcceptedArrivals, g)
        IN  /\ Debounced(g)
            /\ Len(arr) >= 3
            /\ arr[1].message_id > arr[2].message_id
            /\ arr[3].message_id < arr[1].message_id
            /\ \E b \in Emitted(g) : Len(b.ids) = Len(arr)

\* C2: no buffered message is handed to the forward callback in more than one
\* batch, and no destination is sent the same message twice.
C2_NoDoubleEmission ==
    /\ \A b1, b2 \in batches :
          b1 # b2 => Elems(b1.ids) \cap Elems(b2.ids) = {}
    /\ \A c1, c2 \in sent :
          (c1 # c2 /\ c1.chat_id = c2.chat_id /\ c1.api # "send_message"
              /\ c2.api # "send_message")
          => {c1.media[i].of : i \in 1..Len(c1.media)}
                 \cap {c2.media[i].of : i \in 1..Len(c2.media)} = {}

\* C5: a dispatch that has passed its delay stage ends only after every
\* configured destination was attempted; nothing interrupts it part-way.
C5_RunsToCompletion ==
    \A t \in MsgIds :
        (task[t].it >= 1 /\ ~Live(t))
        => \A k \in 1..Len(config.target_channels) : Attempted(t, k)

\* C6: a message without group id is handed to the forward callback as a
\* batch of exactly itself within the add_message call, and gets neither a
\* buffer nor a timer.
C6_UngroupedImmediate ==
    \A i \in 1..Len(arrived) :
        LET m == arrived[i]
        IN  (Accepted(m) /\ ~Truthy(m.media_group_id))
            => /\ \E b \in batches :
                     b.by = m.message_id /\ b.ids = <<m.message_id>>
               /\ \A g \in DOMAIN media_groups :
                     m.message_id \notin Elems(Ids(media_groups[g]))
               /\ \A g \in DOMAIN group_timers :
                     group_timers[g] # m.message_id
               /\ task[m.message_id].pc # "sleep"
               /\ ~Truthy(task[m.message_id].gid)
               /\ DOMAIN media_groups \subseteq Groups

C6_Witness ==
    \E i \in 1..Len(arrived) :
        /\ ~Truthy(arrived[i].media_group_id)
        /\ task[arrived[i].message_id].pc = "delay"
        /\ \E b \in batches : b.by = arrived[i].message_id

\* C7: every message add_message accepted is eventually part of a batch handed
\* to the forward callback, and a buffered group always has a pending timer
\* task (timers fair, arrivals finite).
C7_EventuallyBatched ==
    /\ [](\A g \in DOMAIN media_groups :
             g \in DOMAIN group_timers /\ Live(group_timers[g]))
    /\ \A id \in MsgIds :
          (\E i \in 1..Len(arrived) :
              arrived[i].message_id = id /\ Accepted(arrived[i]))
          ~> (\E b \in batches : id \in Elems(b.ids))

\* A message that was buffered again after its first timer was cancelled inside
\* the callback, and went out with a later timer's batch.
C7_Witness ==
    \E b \in batches :
        /\ Truthy(task[b.by].gid)
        /\ ~Live(b.by)
        /\ \E id \in Elems(b.ids) : id # b.by /\ task[id].pc = "cancelled"

\* ------------------------------------------------ claims on the dispatcher
\* The messages of the configured sources, suppressed or not.
SourceArrivals == SelectSeq(arrived, LAMBDA m : FromSource(m, config))

Filtered(m) == should_filter_message(m, get_message_type(m), config)

Dispatched(id) == \E b \in batches : id \in Elems(b.ids)

RowsOf(t) == {r \in log : r.by = t}

\* C3: a finished dispatch of a batch to N destinations has written exactly
\* one row for every (message, destination) pair: N x |batch| rows.
C3_RecordPerPair ==
    \A b \in batches :
        task[b.by].pc = "done"
        => /\ Cardinality(RowsOf(b.by))
                 = Len(config.target_channels) * Len(b.ids)
           /\ \A k \in 1..Len(config.target_channels), id \in Elems(b.ids) :
                 Cardinality({r \in RowsOf(b.by) :
                                 /\ r.target_chat_id = config.target_channels[k]
                                 /\ r.original_message_id = id}) = 1

\* C4: a provider error at destination k stays inside that iteration: the
\* dispatch goes on, and when it returns every destination after k was
\* attempted.
C4_FailureIsolated ==
    \A r \in log :
        ~r.success
        => /\ task[r.by].pc \in {"send", "notify", "done", "cancelled"}
           /\ task[r.by].it >= r.it
           /\ task[r.by].pc = "done"
                 => \A k \in (r.it + 1)..Len(config.target_channels) :
                        Attempted(r.by, k)

C4_Witness ==
    /\ \E r \in log :
          /\ ~r.success /\ r.is_media_group /\ r.it = 1
          /\ task[r.by].pc = "done" /\ Attempted(r.by, 2)
    /\ \E r \in log :
          /\ ~r.success /\ ~r.is_media_group /\ r.it = 1
          /\ task[r.by].pc = "done" /\ Attempted(r.by, 2)

\* C8: a message the filter suppresses never enters the aggregator or the
\* dispatcher: no buffer, no task, no batch, no send, no row, no notification.
C8_SuppressedNoEffect ==
    \A i \in 1..Len(arrived) :
        LET m == arrived[i]
        IN  Filtered(m)
            => /\ ~Dispatched(m.message_id)
               /\ \A g \in DOMAIN media_groups :
                     m.message_id \notin Elems(Ids(media_groups[g]))
               /\ task[m.message_id].pc = "none"
               /\ \A c \in sent :
                     /\ c.by # m.message_id
                     /\ \A j \in 1..Len(c.media) : c.media[j].of # m.message_id
               /\ \A r \in log :
                     r.by # m.message_id /\ r.original_message_id # m.message_id

C8_Witness ==
    /\ \E i \in 1..Len(arrived) :
          Filtered(arrived[i]) /\ get_message_type(arrived[i]) = "video"
    /\ \E i \in 1..Len(arrived) :
          Filtered(arrived[i]) /\ get_message_type(arrived[i]) = "text"
    /\ \E c \in sent : c.api = "send_message"

C10_SnapshotConsistent ==
    \A b \in batches :
        /\ \A c \in sent :
              (c.by = b.by /\ c.api # "send_message")
              => c.it <= Len(b.targets) /\ c.chat_id = b.targets[c.it]
        /\ \A c1, c2 \in sent :
              (c1.by = b.by /\ c2.by = b.by /\ c1.api # "send_message"
                  /\ c2.api # "send_message")
              => c1.media[1].caption = c2.media[1].caption
        /\ (task[b.by].pc = "done" /\ task[b.by].it >= 1)
              => \A k \in 1..Len(b.targets) : Attempted(b.by, k)

\* ------------------------------------------- claims on delay and accounting
\* The entries of kind k in the trail of coroutine t.
TrailOf(t, k) == SelectSeq(task[t].trail, LAMBDA e : e.ev = k)

\* C11: with delay_seconds > 0 the dispatch of a batch sleeps exactly once,
\* before anything else and whatever the number of destinations, and nothing
\* is sent for the batch while it sleeps; with delay_seconds = 0 it never
\* sleeps.
C11_DelayOncePerBatch ==
    \A b \in batches :
        LET tr == task[b.by]
        IN  /\ config.forward_settings.delay_seconds > 0
                  => /\ Len(TrailOf(b.by, "delay")) = 1
                     /\ tr.trail[1].ev = "delay"
            /\ config.forward_settings.delay_seconds = 0
                  => Len(TrailOf(b.by, "delay")) = 0
            /\ tr.pc = "delay"
                  => /\ Len(tr.trail) = 1
                     /\ tr.it = 0
                     /\ \A c \in sent : c.by # b.by
                     /\ \A r \in log : r.by # b.by

C11_Witness ==
    \E b \in batches :
        /\ config.forward_settings.delay_seconds > 0
        /\ Len(config.target_channels) = 2
        /\ task[b.by].pc = "done"
        /\ Len(TrailOf(b.by, "ok")) = 2
        /\ Len(TrailOf(b.by, "delay")) = 1

\* C12: ungrouped messages dispatched with delay 0 to N destinations that all
\* succeed leave N rows each, all with success = true, and add 1 each to the
\* forwarded counter.
C12_SingleCountedOnce ==
    (/\ batches # {}
     /\ config.forward_settings.delay_seconds = 0
     /\ \A b \in batches :
           /\ ~Truthy(task[b.by].gid)
           /\ task[b.by].pc = "done"
           /\ Len(TrailOf(b.by, "fail")) = 0)
    => /\ \A b \in batches :
             /\ Cardinality(RowsOf(b.by)) = Len(config.target_channels)
             /\ \A r \in RowsOf(b.by) : r.success
       /\ stats.messages_forwarded = Cardinality(batches)

\* The batch coroutine t was started with.
BatchOf(t) == CHOOSE b \in batches : b.by = t

\* The rows coroutine t wrote in iteration k of its loop over the destinations.
RowsAt(t, k) == {r \in log : r.by = t /\ r.it = k}

\* The admins coroutine t has tried to notify in iteration k, in order.
NotifiedAt(t, k) ==
    LET evs == SelectSeq(task[t].trail, LAMBDA e : e.ev = "notify" /\ e.it = k)
    IN  [j \in 1..Len(evs) |-> evs[j].to]

\* Coroutine t has left iteration k of its loop over the destinations.
Past(t, k) == task[t].pc = "done" \/ task[t].it > k

\* C13: a failed send leaves one row for every message of the batch, with
\* success = false and the provider's error text, and adds the batch size to
\* the failure counter; every admin is notified once for that destination if
\* and only if notify_admin_on_error is set; a destination that succeeded
\* causes no notification.
C13_FailureRecorded ==
    /\ stats.failed_forwards = Cardinality({r \in log : ~r.success})
    /\ \A t \in MsgIds :
          \A n \in 1..Len(task[t].trail) :
              LET e == task[t].trail[n]
              IN  /\ e.ev = "fail"
                        => /\ {r.original_message_id : r \in RowsAt(t, e.it)}
                                 = Elems(BatchOf(t).ids)
                           /\ Cardinality(RowsAt(t, e.it)) = Len(BatchOf(t).ids)
                           /\ \A r \in RowsAt(t, e.it) :
                                 /\ ~r.success
                                 /\ r.error_message = ErrorText
                                 /\ r.target_chat_id = e.to
                           /\ IF config.notification_settings.notify_admin_on_error
                                 THEN /\ Len(NotifiedAt(t, e.it)) <= Len(config.admins)
                                      /\ Past(t, e.it)
                                            => NotifiedAt(t, e.it) = config.admins
                                 ELSE NotifiedAt(t, e.it) = <<>>
                  /\ e.ev = "ok"
                        => /\ NotifiedAt(t, e.it) = <<>>
                           /\ \A r \in RowsAt(t, e.it) : r.success

\* The scenario: a single message, destination 1 succeeds, destination 2 fails.
C13_Witness ==
    /\ config.notification_settings.notify_admin_on_error
    /\ \E t \in MsgIds :
          /\ task[t].pc = "done" /\ ~task[t].album
          /\ Len(TrailOf(t, "ok")) = 1
          /\ \E n \in 1..Len(task[t].trail) :
                task[t].trail[n].ev = "fail" /\ task[t].trail[n].it = 2
          /\ NotifiedAt(t, 2) = config.admins
          /\ NotifiedAt(t, 1) = <<>>
          /\ Cardinality({r \in RowsOf(t) : r.success}) = 1
          /\ Cardinality({r \in RowsOf(t) : ~r.success}) = 1
          /\ stats.failed_forwards = 1

\* C15: notify_admins_error tries the admins one after the other whatever the
\* outcome of each attempt, and the dispatch then goes on to the destinations
\* that follow.
C15_AdminsIndependent ==
    config.notification_settings.notify_admin_on_error
    => \A t \in MsgIds :
          \A n \in 1..Len(task[t].trail) :
              LET e == task[t].trail[n]
                  tried == NotifiedAt(t, e.it)
              IN  e.ev = "fail"
                  => /\ Len(tried) <= Len(config.admins)
                     /\ tried = SubSeq(config.admins, 1, Len(tried))
                     /\ task[t].pc \in {"send", "notify", "done", "cancelled"}
                     /\ task[t].pc = "notify" /\ task[t].it = e.it
                           => task[t].ai = Len(tried)
                     /\ Past(t, e.it) => tried = config.admins
                     /\ task[t].pc = "done"
                           => \A k \in (e.it + 1)..Len(config.target_channels) :
                                  \E j \in 1..Len(task[t].trail) :
                                      /\ task[t].trail[j].it = k
                                      /\ task[t].trail[j].ev \in {"ok", "fail"}

\* The first admin could not be reached; the second was notified and the next
\* destination was served.
C15_Witness ==
    \E t \in MsgIds :
        /\ task[t].pc = "done"
        /\ \E n \in 1..Len(task[t].trail) :
              task[t].trail[n].ev = "fail" /\ task[t].trail[n].it = 1
        /\ NotifiedAt(t, 1) = <<7, 8>>
        /\ ~\E c \in sent :
               c.by = t /\ c.it = 1 /\ c.api = "send_message" /\ c.chat_id = 7
        /\ \E c \in sent :
              c.by = t /\ c.it = 1 /\ c.api = "send_message" /\ c.chat_id = 8
        /\ \E c \in sent : c.by = t /\ c.it = 2 /\ c.api # "send_message"

\* What one outcome of coroutine t adds to a counter: the batch size for an
\* album, 1 for a single copy.
Size(t) == IF task[t].album THEN Len(BatchOf(t).ids) ELSE 1

\* The counter the outcomes of kind k of coroutines 1..n add up to.
RECURSIVE CountedTo(_, _)
CountedTo(k, n) ==
    IF n = 0 THEN 0
    ELSE Len(TrailOf(n, k)) * Size(n) + CountedTo(k, n - 1)

\* The step in which coroutine t learns the outcome of a send writes the row
\* of every message whose INSERT does not fail, and of no other.
RowsWritten ==
    \A t \in MsgIds :
        Len(task'[t].trail) > Len(task[t].trail)
        => LET e == task'[t].trail[Len(task[t].trail) + 1]
           IN  e.ev \in {"ok", "fail"}
               => \A id \in Elems(BatchOf(t).ids) :
                      id \notin db_fail
                      <=> \E r \in log' \ log :
                              /\ r.by = t /\ r.it = e.it
                              /\ r.original_message_id = id
                              /\ r.success = (e.ev = "ok")

\* The counters and the notifications are those of the outcomes, and a
\* dispatch that returns has served every destination.
OutcomesApplied ==
    /\ stats.messages_forwarded = CountedTo("ok", MaxMsg)
    /\ stats.failed_forwards = CountedTo("fail", MaxMsg)
    /\ \A t \in MsgIds :
          /\ \A n \in 1..Len(task[t].trail) :
                LET e == task[t].trail[n]
                IN  (e.ev = "fail" /\ Past(t, e.it))
                    => NotifiedAt(t, e.it) = config.admins
          /\ (task[t].pc = "done" /\ task[t].it >= 1)
                => \A k \in 1..Len(config.target_channels) :
                       \E n \in 1..Len(task[t].trail) :
                           /\ task[t].trail[n].it = k
                           /\ task[t].trail[n].ev \in {"ok", "fail"}

\* C14: a row that cannot be written is lost and nothing else changes: the
\* other rows of the step are written, the counters and the notifications are
\* those of the outcomes, and the dispatch serves every destination.
C14_LogFailureContained == [][RowsWritten]_vars /\ []OutcomesApplied

\* An album went to both destinations, the second send failed, and only the
\* rows of its second message could be written.
C14_Witness ==
    \E t \in MsgIds :
        /\ task[t].pc = "done" /\ task[t].album
        /\ Len(TrailOf(t, "ok")) = 1 /\ Len(TrailOf(t, "fail")) = 1
        /\ {r.original_message_id : r \in RowsOf(t)} = {2}
        /\ Cardinality(RowsOf(t)) = 2
        /\ NotifiedAt(t, 2) = config.admins
        /\ stats.messages_forwarded = 2 /\ stats.failed_forwards = 2

\* ------------------------------------------------------- claims on albums
\* The albums the provider was asked to send.
Albums == {c \in sent : c.api = "send_media_group"}

\* C16: the items of a sent album are built from members of its batch, in
\* ascending message-id order, and no item after the first has a caption.
C16_AlbumOrderedCaptionFirst ==
    \A c \in Albums :
        /\ \A i \in 1..Len(c.media) :
              /\ c.media[i].of \in Elems(BatchOf(c.by).ids)
              /\ i > 1 => c.media[i].caption = None
        /\ \A i, j \in 1..Len(c.media) :
              i < j => c.media[i].of < c.media[j].of

\* An album of three members that arrived out of id order, sent with the
\* caption on its first item.
C16_Witness ==
    \E c \in Albums :
        /\ Len(c.media) = 3
        /\ Truthy(c.media[1].caption)
        /\ arrived[1].message_id > arrived[2].message_id

\* The message the adapter delivered with this id.
MsgById(id) == CHOOSE m \in Elems(arrived) : m.message_id = id

\* The members of the batch an album was built from, in batch order.
MembersOf(c) == [i \in 1..Len(BatchOf(c.by).ids) |-> MsgById(BatchOf(c.by).ids[i])]

\* C17: with add_source_info off, an album whose first message has a caption
\* is sent with exactly that caption on its first item.
C17_CaptionKept ==
    ~config.forward_settings.add_source_info
    => \A c \in Albums :
           Truthy(MembersOf(c)[1].caption)
           => /\ c.media[1].of = MembersOf(c)[1].message_id
              /\ c.media[1].caption = MembersOf(c)[1].caption

\* The kinds an album carries.
AlbumKinds == {"photo", "video", "document", "audio"}

\* C19: the items of a sent album are the members of the batch whose kind an
\* album carries, each as an item of its own kind, in batch order; the other
\* members have no item.
C19_SupportedMembersOnly ==
    \A c \in Albums :
        LET carried == SelectSeq(MembersOf(c),
                                 LAMBDA m : get_message_type(m) \in AlbumKinds)
        IN  /\ Len(c.media) = Len(carried)
            /\ \A i \in 1..Len(carried) :
                  /\ c.media[i].of = carried[i].message_id
                  /\ c.media[i].type = get_message_type(carried[i])

\* An album was sent without the voice message of its batch.
C19_Witness ==
    \E c \in Albums :
        /\ Len(c.media) < Len(MembersOf(c))
        /\ \E i \in 1..Len(MembersOf(c)) :
              get_message_type(MembersOf(c)[i]) = "voice"
        /\ c.media[1].type \in {"video", "document", "audio"}

\* C18: with add_source_info and preserve_sender set, the caption built for a
\* message that has a sender contains the original caption, the sender's name
\* and the message's time in a format that parses back to it.
C18_CaptionRoundTrip ==
    (/\ built.called
     /\ built.settings.add_source_info
     /\ built.settings.preserve_sender
     /\ Truthy(built.message.from_user))
    => /\ Truthy(built.message.caption)
             => IsSubstring(built.message.caption, built.result)
       /\ IsSubstring(built.message.from_user, built.result)
       /\ IsSubstring(strftime(built.message.date), built.result)
       /\ strptime(strftime(built.message.date)) = built.message.date

\* ------------------------------------------------- claims on the RateLimiter
\* The callers that went on to send in the 60 seconds up to instant x.
InWindow(x) ==
    {i \in 1..Len(limiter.went) :
        limiter.went[i] <= x /\ x - limiter.went[i] < 60}

\* C20: callers that find the limiter at capacity are suspended long enough
\* that in no rolling 60-second window more than max_per_minute callers go on
\* to send.
C20_WithinLimit ==
    \A i \in 1..Len(limiter.went) :
        Cardinality(InWindow(limiter.went[i])) <= limiter.max_per_minute

\* --------------------------------------- claims on classification and filter
\* The kinds in the order of their priority, and what makes a kind present.
KindOrder ==
    <<"text", "photo", "video", "document", "audio", "voice", "sticker",
      "animation", "location", "poll">>

Present(message, kind) ==
    IF kind = "text" THEN Truthy(message.text) ELSE kind \in message.fields

\* C21: get_message_type returns the first kind of the priority order whose
\* attribute the message has, and "other" when it has none.
C21_FirstPresentKind ==
    built.called
    => LET has == {i \in 1..Len(KindOrder) : Present(built.message, KindOrder[i])}
       IN  built.result =
               IF has = {} THEN "other"
               ELSE KindOrder[CHOOSE i \in has : \A j \in has : i <= j]

C21_Witness ==
    /\ built.called
    /\ built.message.text = <<>>
    /\ built.message.fields = {"photo", "video", "poll"}
    /\ built.result = "photo"

\* Two characters that differ at most in case.
SameLetter(a, b) ==
    \/ a = b
    \/ {a, b} = {"a", "A"}
    \/ {a, b} = {"b", "B"}

\* Keyword k occurs in text t, case ignored.
OccursIgnoringCase(k, t) ==
    \E i \in 0..(Len(t) - Len(k)) :
        \A j \in 1..Len(k) : SameLetter(t[i + j], k[j])

\* C22: should_filter_message is true exactly when the kind is blocked, or the
\* message has a text in which a configured keyword occurs, case ignored.
C22_FilterExact ==
    built.called
    => (built.result
        <=> \/ built.settings.content_type \in built.settings.filter_content_types
            \/ /\ Truthy(built.message.text)
               /\ \E n \in 1..Len(built.settings.keyword_filter) :
                     OccursIgnoringCase(built.settings.keyword_filter[n],
                                        built.message.text))

\* A text suppressed by a keyword written in the other case, its kind not
\* being blocked.
C22_Witness ==
    /\ built.called
    /\ built.result
    /\ built.settings.content_type \notin built.settings.filter_content_types
    /\ built.message.text = <<"x", "A">>
    /\ built.settings.keyword_filter = << <<"a">> >>

\* ------------------------------------------------- claims on the log's rows
\* C23: every row carries the flag of its batch, which is set when the batch
\* has more than one message or its message has a group id.
C23_GroupFlag ==
    \A r \in log :
        r.is_media_group
            = (Len(BatchOf(r.by).ids) > 1 \/ Truthy(r.media_group_id))

\* C29: a success row of an album names, as the forwarded message, the item
\* that was built from the row's own original message, and only a member that
\* was sent has a success row.
C29_RowPairsOwnItem ==
    \A r \in log :
        (r.success /\ r.is_media_group)
        => /\ r.forwarded_message_id = r.original_message_id
           /\ \E c \in Albums :
                 /\ c.by = r.by /\ c.it = r.it
                 /\ \E i \in 1..Len(c.media) :
                       c.media[i].of = r.original_message_id

\* C30: with every row written, messages_forwarded is the number of success
\* rows and failed_forwards the number of failure rows.
C30_CountersMatchLog ==
    db_fail = {}
    => /\ stats.messages_forwarded = Cardinality({r \in log : r.success})
       /\ stats.failed_forwards = Cardinality({r \in log : ~r.success})

\* ------------------------------------------------- claims on the aggregator
\* The position at which the message with this id arrived.
ArrivedAt(id) == CHOOSE i \in 1..Len(arrived) : arrived[i].message_id = id

\* Timer t was superseded while it was waiting: a message of its group arrived
\* after the one that started it, and t had handed no batch to the callback.
Superseded(t) ==
    /\ Truthy(task[t].gid)
    /\ \A b \in batches : b.by # t
    /\ \E i \in 1..Len(arrived) :
          /\ i > ArrivedAt(t)
          /\ Accepted(arrived[i])
          /\ arrived[i].media_group_id = task[t].gid

\* C27: the batch of a group is emitted by the timer of the group's most recent
\* arrival; a timer superseded while waiting is cancelled for good, emits
\* nothing and deletes nothing: every buffered message not yet emitted is still
\* in its group's buffer.
C27_OnlyLatestTimerEmits ==
    /\ \A b \in batches :
          Truthy(task[b.by].gid)
          => /\ b.by \in Elems(b.ids)
             /\ \A id \in Elems(b.ids) : ArrivedAt(id) <= ArrivedAt(b.by)
    /\ \A t \in MsgIds :
          Superseded(t)
          => /\ task[t].pc = "cancelled"
             /\ task[t].trail = <<>>
             /\ \A c \in sent : c.by # t
    /\ \A i \in 1..Len(arrived) :
          (Accepted(arrived[i]) /\ Truthy(arrived[i].media_group_id))
          => \/ Dispatched(arrived[i].message_id)
             \/ /\ arrived[i].media_group_id \in DOMAIN media_groups
                /\ arrived[i].message_id
                       \in Elems(Ids(media_groups[arrived[i].media_group_id]))

\* Two timers were superseded while waiting, and the third emitted the batch of
\* all three messages.
C27_Witness ==
    \E b \in batches :
        /\ Len(b.ids) = 3
        /\ task[b.by].pc = "done"
        /\ \A id \in Elems(b.ids) : id # b.by => Superseded(id)

\* What the aggregator holds for group h: its buffer, its timer entry and the
\* tasks started for it.
GroupState(h) ==
    [buffered |-> h \in DOMAIN media_groups,
     buffer |-> IF h \in DOMAIN media_groups THEN media_groups[h] ELSE <<>>,
     timed |-> h \in DOMAIN group_timers,
     timer |-> IF h \in DOMAIN group_timers THEN group_timers[h] ELSE 0,
     tasks |-> [t \in MsgIds |-> IF task[t].gid = h THEN task[t] ELSE NoTask]]

\* The group a step belongs to: that of the message that arrives, or that of
\* the task that moves.
StepGroup ==
    IF Len(arrived') > Len(arrived)
        THEN arrived'[Len(arrived')].media_group_id
        ELSE task[CHOOSE t \in MsgIds : task'[t] # task[t]].gid

\* A step of one group leaves every other group as it was.
OtherGroupsKept ==
    \A h \in TwoGroups : h # StepGroup => GroupState(h)' = GroupState(h)

\* The messages of a batch all carry the group id of the timer that emitted it.
OneGroupPerBatch ==
    \A b \in batches :
        \A id \in Elems(b.ids) :
            MsgById(id).media_group_id = task[b.by].gid

\* C28: an arrival for a group, and the expiry, emission and cleanup of its
\* timer, leave the buffer and the timer of every other group unchanged, and a
\* batch holds messages of one group only.
C28_GroupsIndependent == [][OtherGroupsKept]_vars /\ []OneGroupPerBatch

\* The batch of one group has been sent and cleaned up while the other group
\* still waits with its buffer and its timer.
C28_Witness ==
    \E b \in batches :
        /\ task[b.by].pc = "done"
        /\ Len(b.ids) = 2
        /\ \E h \in TwoGroups :
              /\ h # task[b.by].gid
              /\ h \in DOMAIN media_groups
              /\ h \in DOMAIN group_timers
              /\ task[group_timers[h]].pc = "sleep"
              /\ ArrivedAt(media_groups[h][1].message_id) < ArrivedAt(b.by)

\* ------------------------------------------------------------ admin commands
\* The commands that take an argument.
ArgCommands ==
    {"add_source", "add_target", "remove_source", "remove_target", "add_admin",
     "set_delay"}

\* The argument reads as a number: an optional sign, then decimal digits.
IsNumeral(str) ==
    LET body == IF str # <<>> /\ str[1] \in {"-", "+"} THEN Tail(str) ELSE str
    IN  /\ body # <<>>
        /\ \A i \in 1..Len(body) : body[i] \in Elems(Digits)

\* The argument reads as a number below zero.
IsNegative(str) ==
    /\ IsNumeral(str)
    /\ str[1] = "-"
    /\ \E i \in 2..Len(str) : str[i] # "0"

\* The command handled was given a bad argument: none, one that is no number,
\* or for set_delay a negative one.
BadArgument(r) ==
    /\ r.cmd \in ArgCommands
    /\ \/ r.args = <<>>
       \/ ~IsNumeral(r.args[1])
       \/ r.cmd = "set_delay" /\ IsNegative(r.args[1])

ErrorReplies == {"usage", "invalid", "negative"}

\* C24 as stated: a configuration command given a bad argument replies with an
\* error and leaves the configuration and config.json unchanged, whoever sent
\* it.
C24_BadArgumentAnswered ==
    [][BadArgument(reply')
          => /\ reply'.kind \in ErrorReplies
             /\ config' = config
             /\ config_file' = config_file]_vars

\* C24: a configuration command given a bad argument (none, a non-numeric id,
\* a non-numeric or negative delay) leaves the configuration and config.json
\* unchanged, and replies with an error when an admin sent it; sent by anyone
\* else it gets no reply.
C24_BadArgumentRefused ==
    [][BadArgument(reply')
          => /\ config' = config
             /\ config_file' = config_file
             /\ IF InList(reply'.user, config.admins)
                   THEN reply'.kind \in ErrorReplies
                   ELSE reply'.kind = "none"]_vars

\* An admin asked for a negative delay, was told so, and the delay and the
\* file are as they were.
C24_Witness ==
    /\ reply.cmd = "set_delay"
    /\ reply.args = << <<"-", "1">> >>
    /\ InList(reply.user, config.admins)
    /\ reply.kind = "negative"
    /\ config.forward_settings.delay_seconds >= 0
    /\ config_file.valid

\* C25: a configuration command sent by a user who is not in the admin list
\* leaves the whole configuration and config.json unchanged and gets no reply;
\* and the admin list gains a user only in an add_admin sent by a user who was
\* an admin already.
C25_OnlyAdminsConfigure ==
    [][/\ ~InList(reply'.user, config.admins) /\ reply' # NoReply
           => /\ config' = config
              /\ config_file' = config_file
              /\ reply'.kind = "none"
       /\ \A x \in Elems(config'.admins) \ Elems(config.admins) :
              /\ reply'.cmd = "add_admin"
              /\ InList(reply'.user, config.admins)]_vars

\* A stranger asked to be made admin with a well-formed command, and is none.
C25_Witness ==
    /\ reply.cmd = "add_admin"
    /\ reply.args = << <<"8">> >>
    /\ reply.user = 8
    /\ reply.kind = "none"
    /\ ~InList(8, config.admins)

\* C26: whenever the last command was answered with a success reply,
\* config.json holds a whole document equal to the configuration in memory:
\* a change is acknowledged only after it was written.
C26_AcknowledgedIsPersisted ==
    reply.kind = "ok" => config_file.valid /\ config_file.content = config

\* ------------------------------------------------------------ source check
\* The chat is in the configured source list.
IsSourceChat(chat_id) == chat_id \in Elems(config.source_channels)

\* The step handled a message that came from a chat outside the source list.
ForeignArrival ==
    /\ Len(arrived') = Len(arrived) + 1
    /\ ~IsSourceChat(arrived'[Len(arrived')].chat_id)

\* The handler of a message from outside the source list touches nothing.
ForeignIgnored ==
    ForeignArrival
        => UNCHANGED <<stats, media_groups, group_timers, task, handler, log,
                       sent, batches>>

\* messages_received counts the source messages, filtered or not; no batch and
\* no log row is about a message from elsewhere.
SourceCounted ==
    /\ stats.messages_received
          = Cardinality({i \in 1..Len(arrived) : IsSourceChat(arrived[i].chat_id)})
    /\ \A b \in batches : \A i \in 1..Len(arrived) :
          arrived[i].message_id \in Elems(b.ids)
              => IsSourceChat(arrived[i].chat_id)
    /\ \A r \in log : IsSourceChat(r.source_chat_id)

\* C31: a message whose chat id is not in the source list has no effect: its
\* handler leaves the counters, every group buffer and timer, the log and the
\* sends as they were, and no batch or row is ever about it; messages_received
\* is the number of messages that came from a source, filtered or not.
C31_ForeignMessageIgnored ==
    [][ForeignIgnored]_vars /\ []SourceCounted

\* A foreign message arrived while a source album was buffered, a filtered
\* source message was counted, and the foreign one was not.
C31_Witness ==
    /\ Len(arrived) = 3
    /\ IsSourceChat(arrived[1].chat_id) /\ Truthy(arrived[1].media_group_id)
    /\ arrived[1].media_group_id \in DOMAIN media_groups
    /\ IsSourceChat(arrived[2].chat_id) /\ Suppressed(arrived[2], config)
    /\ ~IsSourceChat(arrived[3].chat_id)
    /\ ~Suppressed(arrived[3], config)
    /\ stats.messages_received = 2

====
